---- MODULE Spec2Model ----
(***************************************************************************)
(* Model of pkg/reporter/junit_reporter.go: the JUnit report tree, the     *)
(* property validity check, the XML marshalling of the tree and            *)
(* JunitReporter.Print.                                                    *)
(*                                                                         *)
(* Go strings are sequences of one-character strings, so that ReplaceAll,  *)
(* Sprintf and the XML escaping are computed character by character.       *)
(* A nilable pointer is a record with a field "nil".  The marshalled bytes  *)
(* are a sequence of XML items (elements and character data), the         *)
(* indentation white space left out; the empty sequence is []byte{}.       *)
(***************************************************************************)
EXTENDS Integers, Sequences, FiniteSets

VARIABLES pc, op, reports, tree, ts, data, err, ret, stdout, marshalCalls

vars == <<pc, op, reports, tree, ts, data, err, ret, stdout, marshalCalls>>

----------------------------------------------------------------------------
(* Bounds of the explored inputs *)

MaxReports == 2

MaxNodes == 4

----------------------------------------------------------------------------
(* String constants of the source *)

Header == <<"<","?","x","m","l"," ","v","e","r","s","i","o","n","=","\"","1",".","0","\""," ","e","n","c","o","d","i","n","g","=","\"","U","T","F","-","8","\"","?",">","\n">>

ToolName == <<"c","o","n","f","i","g","-","f","i","l","e","-","v","a","l","i","d","a","t","o","r">>

ValidationSuffix == <<" ","v","a","l","i","d","a","t","i","o","n">>

MsgProperty == <<"p","r","o","p","e","r","t","y"," ">>

MsgInTestsuite == <<" ","i","n"," ","t","e","s","t","s","u","i","t","e"," ">>

MsgInTestcase == <<" ","i","n"," ","t","e","s","t","c","a","s","e"," ">>

MsgNotBoth == <<" ","s","h","o","u","l","d"," ","c","o","n","t","a","i","n"," ","v","a","l","u","e"," ","o","r"," ","a"," ","t","e","x","t"," ","v","a","l","u","e",","," ","n","o","t"," ","b","o","t","h">>

MsgYearRange == <<"T","i","m","e",".","M","a","r","s","h","a","l","T","e","x","t",":"," ","y","e","a","r"," ","o","u","t","s","i","d","e"," ","o","f"," ","r","a","n","g","e"," ","[","0",",","9","9","9","9","]">>

----------------------------------------------------------------------------
(* error values: nil, or an error whose Error() is msg *)

NilErr == [nil |-> TRUE, msg |-> <<>>]

NewErr(m) == [nil |-> FALSE, msg |-> m]

ErrorString(e) == e.msg

----------------------------------------------------------------------------
(* The report tree: the zero value of each struct type *)

NilTime == [nil |-> TRUE, year |-> 0]

NilSlice == [nil |-> TRUE, v |-> <<>>]

PtrTo(s) == [nil |-> FALSE, v |-> s]

NilSkipped == [nil |-> TRUE, Message |-> <<>>]

NilOutcome == [nil |-> TRUE, Message |-> <<>>, Type |-> <<>>, TextValue |-> <<>>]

NilText == [nil |-> TRUE, TextValue |-> <<>>]

ZeroTestsuites ==
    [Name |-> <<>>, Tests |-> 0, Failures |-> 0, Errors |-> 0, Skipped |-> 0,
     Assertions |-> 0, Time |-> 0, Timestamp |-> NilTime, Testsuites |-> <<>>]

ZeroTestsuite ==
    [Name |-> <<>>, Tests |-> 0, Failures |-> 0, Errors |-> 0, Skipped |-> 0,
     Assertions |-> 0, Time |-> 0, Timestamp |-> NilTime, File |-> <<>>,
     Testcases |-> NilSlice, Properties |-> NilSlice,
     SystemOut |-> NilText, SystemErr |-> NilText]

ZeroTestcase ==
    [Name |-> <<>>, ClassName |-> <<>>, Assertions |-> 0, Time |-> 0,
     File |-> <<>>, Line |-> 0, Skipped |-> NilSkipped, Properties |-> NilSlice,
     TestcaseError |-> NilOutcome, TestcaseFailure |-> NilOutcome]

ZeroProperty == [TextValue |-> <<>>, Name |-> <<>>, Value |-> <<>>]

----------------------------------------------------------------------------
(* Testsuites.checkPropertyValidity *)

PropertyInvalid(property) == property.Value # <<>> /\ property.TextValue # <<>>

SuiteErrorf(property, testsuite) ==
    NewErr(MsgProperty \o property.Name \o MsgInTestsuite \o testsuite.Name \o MsgNotBoth)

CaseErrorf(property, testcase) ==
    NewErr(MsgProperty \o property.Name \o MsgInTestcase \o testcase.Name \o MsgNotBoth)

RECURSIVE SuitePropertyLoop(_, _)
SuitePropertyLoop(testsuite, pridx) ==
    IF pridx > Len(testsuite.Properties.v) THEN NilErr
    ELSE LET property == testsuite.Properties.v[pridx]
         IN  IF PropertyInvalid(property)
             THEN SuiteErrorf(property, testsuite)
             ELSE SuitePropertyLoop(testsuite, pridx + 1)

RECURSIVE CasePropertyLoop(_, _)
CasePropertyLoop(testcase, propidx) ==
    IF propidx > Len(testcase.Properties.v) THEN NilErr
    ELSE LET property == testcase.Properties.v[propidx]
         IN  IF PropertyInvalid(property)
             THEN CaseErrorf(property, testcase)
             ELSE CasePropertyLoop(testcase, propidx + 1)

RECURSIVE TestcaseLoop(_, _)
TestcaseLoop(testsuite, tcidx) ==
    IF tcidx > Len(testsuite.Testcases.v) THEN NilErr
    ELSE LET testcase == testsuite.Testcases.v[tcidx]
         IN  IF testcase.Properties.nil
             THEN TestcaseLoop(testsuite, tcidx + 1)
             ELSE LET e == CasePropertyLoop(testcase, 1)
                  IN  IF ~e.nil THEN e ELSE TestcaseLoop(testsuite, tcidx + 1)

RECURSIVE TestsuiteLoop(_, _)
TestsuiteLoop(t, tsidx) ==
    IF tsidx > Len(t.Testsuites) THEN NilErr
    ELSE LET testsuite == t.Testsuites[tsidx]
         IN  IF testsuite.Properties.nil
             THEN TestsuiteLoop(t, tsidx + 1)
             ELSE LET e == SuitePropertyLoop(testsuite, 1)
                  IN  IF ~e.nil THEN e
                      ELSE IF testsuite.Testcases.nil
                           THEN TestsuiteLoop(t, tsidx + 1)
                           ELSE LET e2 == TestcaseLoop(testsuite, 1)
                                IN  IF ~e2.nil THEN e2
                                    ELSE TestsuiteLoop(t, tsidx + 1)

checkPropertyValidity(t) == TestsuiteLoop(t, 1)

----------------------------------------------------------------------------
(* encoding/xml as the struct tags of the tree drive it *)

Digits == <<"0","1","2","3","4","5","6","7","8","9">>

RECURSIVE Itoa(_)
Itoa(n) == IF n < 10 THEN <<Digits[n + 1]>>
           ELSE Itoa(n \div 10) \o <<Digits[(n % 10) + 1]>>

RECURSIVE PadYear(_)
PadYear(s) == IF Len(s) >= 4 THEN s ELSE PadYear(<<"0">> \o s)

\* time.Time.MarshalText: RFC 3339; the modelled instants are 1 January,
\* 00:00:00 UTC of a year, and a year outside [0,9999] is an error.
TimeInRange(t) == t.year >= 0 /\ t.year <= 9999

FormatTime(t) ==
    PadYear(Itoa(t.year)) \o <<"-","0","1","-","0","1","T","0","0",":","0","0",":","0","0","Z">>

EscapeChar(c) ==
    CASE c = "&"  -> <<"&","a","m","p",";">>
      [] c = "<"  -> <<"&","l","t",";">>
      [] c = ">"  -> <<"&","g","t",";">>
      [] c = "\"" -> <<"&","#","3","4",";">>
      [] c = "'"  -> <<"&","#","3","9",";">>
      [] c = "\t" -> <<"&","#","x","9",";">>
      [] c = "\n" -> <<"&","#","x","A",";">>
      [] c = "\r" -> <<"&","#","x","D",";">>
      [] OTHER    -> <<c>>

RECURSIVE EscapeText(_)
EscapeText(s) == IF s = <<>> THEN <<>> ELSE EscapeChar(Head(s)) \o EscapeText(Tail(s))

Attr(n, v) == [name |-> n, value |-> v]

Elem(tag, attrs, body) == [tag |-> tag, attrs |-> attrs, body |-> body, text |-> <<>>]

\* a chardata field: an empty string writes nothing
CharData(s) ==
    IF s = <<>> THEN <<>>
    ELSE <<[tag |-> "#chardata", attrs |-> <<>>, body |-> <<>>, text |-> EscapeText(s)]>>

\* `xml:"n,attr"`
AttrString(n, v) == <<Attr(n, EscapeText(v))>>

\* `xml:"n,attr,omitempty"` on a string, an int, a float32 and a *time.Time
AttrStringOmitEmpty(n, v) == IF v = <<>> THEN <<>> ELSE <<Attr(n, EscapeText(v))>>

AttrIntOmitEmpty(n, v) == IF v = 0 THEN <<>> ELSE <<Attr(n, Itoa(v))>>

\* the modelled float32 values are the whole numbers, which format as an int
AttrFloatOmitEmpty(n, v) == IF v = 0 THEN <<>> ELSE <<Attr(n, Itoa(v))>>

AttrTimeOmitEmpty(n, t) == IF t.nil THEN <<>> ELSE <<Attr(n, FormatTime(t))>>

\* `xml:"n,omitempty"` on a string: a child element holding the text
ElemStringOmitEmpty(n, v) == IF v = <<>> THEN <<>> ELSE <<Elem(n, <<>>, CharData(v))>>

\* the property's name under omitempty
MarshalPropertyOmitName(p) ==
    Elem("property",
         AttrStringOmitEmpty("name", p.Name) \o AttrStringOmitEmpty("value", p.Value),
         CharData(p.TextValue))

MarshalProperty(p) ==
    Elem("property",
         AttrString("name", p.Name) \o AttrStringOmitEmpty("value", p.Value),
         CharData(p.TextValue))

\* `xml:"properties>property,omitempty"` on a *[]Property: nothing for nil, and
\* the properties parent around the elements of a non-nil slice
MarshalProperties(ps) ==
    IF ps.nil THEN <<>>
    ELSE <<Elem("properties", <<>>, [i \in 1..Len(ps.v) |-> MarshalProperty(ps.v[i])])>>

MarshalSkipped(s) ==
    IF s.nil THEN <<>>
    ELSE <<Elem("skipped", AttrString("message", s.Message), <<>>)>>

OutcomeBody(o) ==
    ElemStringOmitEmpty("message", o.Message)
    \o ElemStringOmitEmpty("type", o.Type)
    \o CharData(o.TextValue)

MarshalTestcaseError(o) ==
    IF o.nil THEN <<>> ELSE <<Elem("error", <<>>, OutcomeBody(o))>>

MarshalTestcaseFailure(o) ==
    IF o.nil THEN <<>> ELSE <<Elem("failure", <<>>, OutcomeBody(o))>>

MarshalSystemOut(o) ==
    IF o.nil THEN <<>> ELSE <<Elem("system-out", <<>>, CharData(o.TextValue))>>

MarshalSystemErr(o) ==
    IF o.nil THEN <<>> ELSE <<Elem("system-err", <<>>, CharData(o.TextValue))>>

TestcaseAttrs(tc) ==
    AttrString("name", tc.Name)
    \o AttrString("classname", tc.ClassName)
    \o AttrIntOmitEmpty("assertions", tc.Assertions)
    \o AttrFloatOmitEmpty("time", tc.Time)
    \o AttrStringOmitEmpty("file", tc.File)
    \o AttrIntOmitEmpty("line", tc.Line)

MarshalTestcase(tc) ==
    Elem("testcase", TestcaseAttrs(tc),
         MarshalSkipped(tc.Skipped)
         \o MarshalProperties(tc.Properties)
         \o MarshalTestcaseError(tc.TestcaseError)
         \o MarshalTestcaseFailure(tc.TestcaseFailure))

MarshalTestcases(tcs) ==
    IF tcs.nil THEN <<>> ELSE [i \in 1..Len(tcs.v) |-> MarshalTestcase(tcs.v[i])]

TestsuiteAttrs(s) ==
    AttrString("name", s.Name)
    \o AttrIntOmitEmpty("tests", s.Tests)
    \o AttrIntOmitEmpty("failures", s.Failures)
    \o AttrIntOmitEmpty("errors", s.Errors)
    \o AttrIntOmitEmpty("skipped", s.Skipped)
    \o AttrIntOmitEmpty("assertions", s.Assertions)
    \o AttrFloatOmitEmpty("time", s.Time)
    \o AttrTimeOmitEmpty("timestamp", s.Timestamp)
    \o AttrStringOmitEmpty("file", s.File)

MarshalTestsuite(s) ==
    Elem("testsuite", TestsuiteAttrs(s),
         MarshalTestcases(s.Testcases)
         \o MarshalProperties(s.Properties)
         \o MarshalSystemOut(s.SystemOut)
         \o MarshalSystemErr(s.SystemErr))

TestsuitesAttrs(t) ==
    AttrStringOmitEmpty("name", t.Name)
    \o AttrIntOmitEmpty("tests", t.Tests)
    \o AttrIntOmitEmpty("failures", t.Failures)
    \o AttrIntOmitEmpty("errors", t.Errors)
    \o AttrIntOmitEmpty("skipped", t.Skipped)
    \o AttrIntOmitEmpty("assertions", t.Assertions)
    \o AttrFloatOmitEmpty("time", t.Time)
    \o AttrTimeOmitEmpty("timestamp", t.Timestamp)

MarshalTestsuites(t) ==
    Elem("testsuites", TestsuitesAttrs(t),
         [i \in 1..Len(t.Testsuites) |-> MarshalTestsuite(t.Testsuites[i])])

\* the timestamp attributes are the only values of the tree whose text form
\* can fail: MarshalText of a time whose year is outside [0,9999]
TimeMarshals(t) == t.nil \/ TimeInRange(t)

MarshalFails(t) ==
    \/ ~TimeMarshals(t.Timestamp)
    \/ \E i \in 1..Len(t.Testsuites) : ~TimeMarshals(t.Testsuites[i].Timestamp)

\* xml.MarshalIndent(ts, " ", "  ")
MarshalIndent(t) ==
    IF MarshalFails(t)
    THEN [data |-> <<>>, err |-> NewErr(MsgYearRange)]
    ELSE [data |-> <<MarshalTestsuites(t)>>, err |-> NilErr]

----------------------------------------------------------------------------
(* Testsuites.getReport: the bytes, the error, and how many times the       *)
(* marshaller was entered                                                   *)

\* the tree marshalled before the validity check is looked at
getReportMarshalFirst(t) ==
    LET m == MarshalIndent(t)
        e == checkPropertyValidity(t)
    IN  IF ~e.nil
        THEN [data |-> m.data, err |-> e, marshalled |-> 1]
        ELSE [data |-> m.data, err |-> m.err, marshalled |-> 1]

getReport(t) ==
    LET e == checkPropertyValidity(t)
    IN  IF ~e.nil
        THEN [data |-> <<>>, err |-> e, marshalled |-> 0]
        ELSE LET m == MarshalIndent(t)
             IN  IF ~m.err.nil
                 THEN [data |-> <<>>, err |-> m.err, marshalled |-> 1]
                 ELSE [data |-> m.data, err |-> NilErr, marshalled |-> 1]

----------------------------------------------------------------------------
(* JunitReporter.Print *)

Contains(s, c) == \E i \in 1..Len(s) : s[i] = c

\* strings.ReplaceAll for a one-character old and new
ReplaceAll(s, old, new) == [i \in 1..Len(s) |-> IF s[i] = old THEN new ELSE s[i]]

\* strings.Replace with a count of 1: the first backslash only
NormalizePathFirstOnly(path) ==
    IF Contains(path, "\\")
    THEN LET first == CHOOSE i \in 1..Len(path) :
                          path[i] = "\\" /\ \A k \in 1..(i - 1) : path[k] # "\\"
         IN  [path EXCEPT ![first] = "/"]
    ELSE path

NormalizePath(path) ==
    IF Contains(path, "\\") THEN ReplaceAll(path, "\\", "/") ELSE path

\* the error string put in the record's body text
NewFailureAsText(r) ==
    [nil |-> FALSE, Message |-> <<>>, Type |-> <<>>,
     TextValue |-> ErrorString(r.ValidationError)]

NewFailure(r) ==
    [nil |-> FALSE, Message |-> ErrorString(r.ValidationError),
     Type |-> <<>>, TextValue |-> <<>>]

NewTestcase(r) ==
    LET FilePath == NormalizePath(r.FilePath)
        tc == [ZeroTestcase EXCEPT !.Name = FilePath \o ValidationSuffix,
                                   !.File = FilePath,
                                   !.ClassName = ToolName]
    IN  IF ~r.IsValid
        THEN [tc EXCEPT !.TestcaseFailure = NewFailure(r)]
        ELSE tc

\* the counter incremented for every report
CountErrorAlways(testErrors, r) == testErrors + 1

CountError(testErrors, r) == IF ~r.IsValid THEN testErrors + 1 ELSE testErrors

\* each case put in front of the ones built so far
RECURSIVE ReportLoopPrepend(_, _, _, _)
ReportLoopPrepend(rs, i, testcases, testErrors) ==
    IF i > Len(rs) THEN [testcases |-> testcases, testErrors |-> testErrors]
    ELSE ReportLoopPrepend(rs, i + 1, <<NewTestcase(rs[i])>> \o testcases,
                           CountError(testErrors, rs[i]))

RECURSIVE ReportLoop(_, _, _, _)
ReportLoop(rs, i, testcases, testErrors) ==
    IF i > Len(rs) THEN [testcases |-> testcases, testErrors |-> testErrors]
    ELSE ReportLoop(rs, i + 1, Append(testcases, NewTestcase(rs[i])),
                    CountError(testErrors, rs[i]))

\* the suite given an empty, non-nil Properties collection
NewTestsuiteWithProperties(testcases, testErrors) ==
    [ZeroTestsuite EXCEPT !.Name = ToolName,
                          !.Testcases = PtrTo(testcases),
                          !.Properties = PtrTo(<<>>),
                          !.Errors = testErrors]

NewTestsuite(testcases, testErrors) ==
    [ZeroTestsuite EXCEPT !.Name = ToolName,
                          !.Testcases = PtrTo(testcases),
                          !.Errors = testErrors]

BuildTestsuites(rs) ==
    LET loop == ReportLoop(rs, 1, <<>>, 0)
        testsuite == NewTestsuite(loop.testcases, loop.testErrors)
        testsuiteBatch == <<testsuite>>
    IN  [ZeroTestsuites EXCEPT !.Name = ToolName,
                               !.Tests = Len(rs),
                               !.Testsuites = testsuiteBatch]

\* fmt.Println(Header + string(data)): one write of the header, the bytes and
\* the newline Println adds
Println(d) == [header |-> Header, body |-> d, newline |-> <<"\n">>]

PrintTail(t) ==
    LET r == getReport(t)
    IN  IF ~r.err.nil
        THEN [ret |-> r.err, stdout |-> <<>>, report |-> r]
        ELSE [ret |-> NilErr, stdout |-> <<Println(r.data)>>, report |-> r]

JunitReporter_Print(rs) == PrintTail(BuildTestsuites(rs))

----------------------------------------------------------------------------
(* The inputs explored: the lists of reports handed to Print, and the      *)
(* nodes and trees a caller of getReport and checkPropertyValidity builds  *)

Paths ==
    { <<"c","f","g","/","a",".","y","a","m","l">>,
      <<"c","f","g","\\","b",".","y","a","m","l">>,
      <<"a","\\","b","\\","c">> }

ErrorMessages == { <<"b","a","d"," ","k","e","y">>, <<"a","<","b">> }

\* a Report: the error is present exactly when the result is invalid
Reports ==
    [FilePath : Paths, IsValid : {TRUE}, ValidationError : {NilErr}]
    \cup [FilePath : Paths, IsValid : {FALSE},
          ValidationError : {NewErr(m) : m \in ErrorMessages}]

ReportLists == UNION {[1..n -> Reports] : n \in 0..MaxReports}

Strings == { <<>>, <<"n","&">> }

Ints == {0, 12}

Times == {NilTime, [nil |-> FALSE, year |-> 2024], [nil |-> FALSE, year |-> 10000]}

SuiteNames == { <<"s">>, <<"t">> }

CaseNames == { <<"c">> }

PropertyNames == { <<"p">>, <<"q">> }

Properties ==
    [TextValue : {<<>>, <<"y">>}, Name : PropertyNames, Value : {<<>>, <<"x">>}]

Slices == {NilSlice, PtrTo(<<>>)}

NewSuites ==
    {[ZeroTestsuite EXCEPT !.Name = n, !.Properties = ps, !.Testcases = tcs] :
        n \in SuiteNames, ps \in Slices, tcs \in Slices}

NewCases ==
    {[ZeroTestcase EXCEPT !.Name = n, !.Properties = ps] :
        n \in CaseNames, ps \in Slices}

\* documents, suites, cases and properties with each attribute empty or set
DocumentForms ==
    {[ZeroTestsuites EXCEPT !.Name = n, !.Tests = a, !.Failures = b, !.Errors = c,
                            !.Skipped = d, !.Assertions = e, !.Time = f,
                            !.Timestamp = g] :
        n \in Strings, a \in Ints, b \in Ints, c \in Ints, d \in Ints, e \in Ints,
        f \in Ints, g \in Times}

OneSuite(s) == [ZeroTestsuites EXCEPT !.Testsuites = <<s>>]

OneCase(c) == OneSuite([ZeroTestsuite EXCEPT !.Testcases = PtrTo(<<c>>)])

SuiteForms ==
    {OneSuite([ZeroTestsuite EXCEPT !.Name = n, !.Tests = a, !.Failures = b,
                                    !.Errors = c, !.Skipped = d, !.Assertions = e,
                                    !.Time = f, !.Timestamp = g, !.File = h]) :
        n \in Strings, a \in Ints, b \in Ints, c \in Ints, d \in Ints, e \in Ints,
        f \in Ints, g \in Times, h \in Strings}

Texts == {NilText} \cup {[nil |-> FALSE, TextValue |-> x] : x \in Strings}

SystemForms ==
    {OneSuite([ZeroTestsuite EXCEPT !.SystemOut = o, !.SystemErr = e]) :
        o \in Texts, e \in Texts}

Skips == {NilSkipped} \cup {[nil |-> FALSE, Message |-> m] : m \in Strings}

Outcomes ==
    {NilOutcome}
    \cup [nil : {FALSE}, Message : Strings, Type : Strings, TextValue : Strings]

CaseForms ==
    {OneCase([ZeroTestcase EXCEPT !.Name = n, !.ClassName = k, !.Assertions = a,
                                  !.Time = b, !.File = f, !.Line = l,
                                  !.Skipped = s]) :
        n \in Strings, k \in Strings, a \in Ints, b \in Ints, f \in Strings,
        l \in Ints, s \in Skips}

OutcomeForms ==
    {OneCase([ZeroTestcase EXCEPT !.TestcaseError = e, !.TestcaseFailure = f]) :
        e \in Outcomes, f \in Outcomes}

PropertyValues == [TextValue : Strings, Name : Strings, Value : Strings]

PropertyForms ==
    {OneSuite([ZeroTestsuite EXCEPT !.Properties = PtrTo(<<p>>)]) :
        p \in PropertyValues}
    \cup {OneCase([ZeroTestcase EXCEPT !.Properties = PtrTo(<<p>>)]) :
        p \in PropertyValues}

Forms ==
    DocumentForms \cup SuiteForms \cup SystemForms \cup CaseForms
    \cup OutcomeForms \cup PropertyForms

----------------------------------------------------------------------------
(* One execution.  The caller is at "reports" when it holds a list of       *)
(* reports to Print, at "build" while it builds a tree node by node, at     *)
(* "tree" when it holds a finished tree, and at "done" after its call.      *)

RECURSIVE SumSeq(_)
SumSeq(s) == IF s = <<>> THEN 0 ELSE Head(s) + SumSeq(Tail(s))

CaseNodes(c) == 1 + Len(c.Properties.v)

SuiteNodes(s) ==
    1 + Len(s.Properties.v)
    + SumSeq([i \in 1..Len(s.Testcases.v) |-> CaseNodes(s.Testcases.v[i])])

Nodes(t) == SumSeq([i \in 1..Len(t.Testsuites) |-> SuiteNodes(t.Testsuites[i])])

Init ==
    /\ \/ pc = "reports" /\ reports \in ReportLists /\ tree = ZeroTestsuites
       \/ pc = "build" /\ reports = <<>> /\ tree = ZeroTestsuites
       \/ pc = "tree" /\ reports = <<>> /\ tree \in Forms
    /\ op = "none"
    /\ ts = ZeroTestsuites
    /\ data = <<>>
    /\ err = NilErr
    /\ ret = NilErr
    /\ stdout = <<>>
    /\ marshalCalls = 0

Building == pc = "build" /\ Nodes(tree) < MaxNodes

AppendTestsuite ==
    /\ Building
    /\ \E s \in NewSuites : tree' = [tree EXCEPT !.Testsuites = Append(@, s)]
    /\ UNCHANGED <<pc, op, reports, ts, data, err, ret, stdout, marshalCalls>>

AppendSuiteProperty ==
    /\ Building
    /\ Len(tree.Testsuites) > 0
    /\ LET k == Len(tree.Testsuites)
       IN  /\ ~tree.Testsuites[k].Properties.nil
           /\ \E p \in Properties :
                tree' = [tree EXCEPT !.Testsuites[k].Properties.v = Append(@, p)]
    /\ UNCHANGED <<pc, op, reports, ts, data, err, ret, stdout, marshalCalls>>

AppendTestcase ==
    /\ Building
    /\ Len(tree.Testsuites) > 0
    /\ LET k == Len(tree.Testsuites)
       IN  /\ ~tree.Testsuites[k].Testcases.nil
           /\ \E c \in NewCases :
                tree' = [tree EXCEPT !.Testsuites[k].Testcases.v = Append(@, c)]
    /\ UNCHANGED <<pc, op, reports, ts, data, err, ret, stdout, marshalCalls>>

AppendCaseProperty ==
    /\ Building
    /\ Len(tree.Testsuites) > 0
    /\ LET k == Len(tree.Testsuites)
           j == Len(tree.Testsuites[k].Testcases.v)
       IN  /\ j > 0
           /\ ~tree.Testsuites[k].Testcases.v[j].Properties.nil
           /\ \E p \in Properties :
                tree' = [tree EXCEPT
                            !.Testsuites[k].Testcases.v[j].Properties.v = Append(@, p)]
    /\ UNCHANGED <<pc, op, reports, ts, data, err, ret, stdout, marshalCalls>>

CallCheckPropertyValidity ==
    /\ pc \in {"build", "tree"}
    /\ pc' = "done"
    /\ op' = "checkPropertyValidity"
    /\ ts' = tree
    /\ err' = checkPropertyValidity(tree)
    /\ UNCHANGED <<reports, tree, data, ret, stdout, marshalCalls>>

CallGetReport ==
    /\ pc \in {"build", "tree"}
    /\ pc' = "done"
    /\ op' = "getReport"
    /\ ts' = tree
    /\ LET r == getReport(tree)
       IN  /\ data' = r.data
           /\ err' = r.err
           /\ marshalCalls' = marshalCalls + r.marshalled
    /\ UNCHANGED <<reports, tree, ret, stdout>>

CallPrint ==
    /\ pc = "reports"
    /\ pc' = "done"
    /\ op' = "Print"
    /\ ts' = BuildTestsuites(reports)
    /\ LET r == JunitReporter_Print(reports)
       IN  /\ data' = r.report.data
           /\ err' = r.report.err
           /\ marshalCalls' = marshalCalls + r.report.marshalled
           /\ ret' = r.ret
           /\ stdout' = stdout \o r.stdout
    /\ UNCHANGED <<reports, tree>>

Next ==
    \/ AppendTestsuite
    \/ AppendSuiteProperty
    \/ AppendTestcase
    \/ AppendCaseProperty
    \/ CallCheckPropertyValidity
    \/ CallGetReport
    \/ CallPrint

Spec == Init /\ [][Next]_vars

----------------------------------------------------------------------------
(* Vocabulary of the properties *)

Done(o) == pc = "done" /\ op = o

\* the path with every backslash turned into a forward slash
Slashed(path) == [i \in 1..Len(path) |-> IF path[i] = "\\" THEN "/" ELSE path[i]]

NoBackslash(s) == \A i \in 1..Len(s) : s[i] # "\\"

BothForms(p) == p.Value # <<>> /\ p.TextValue # <<>>

RECURSIVE Flatten(_)
Flatten(ss) == IF ss = <<>> THEN <<>> ELSE Head(ss) \o Flatten(Tail(ss))

\* every property of the document in document order, each with the error
\* that names it and its owner
CaseEntries(c) ==
    [k \in 1..Len(c.Properties.v) |->
        [p |-> c.Properties.v[k], e |-> CaseErrorf(c.Properties.v[k], c)]]

SuiteEntries(s) ==
    [k \in 1..Len(s.Properties.v) |->
        [p |-> s.Properties.v[k], e |-> SuiteErrorf(s.Properties.v[k], s)]]
    \o Flatten([j \in 1..Len(s.Testcases.v) |-> CaseEntries(s.Testcases.v[j])])

DocumentEntries(t) == Flatten([i \in 1..Len(t.Testsuites) |-> SuiteEntries(t.Testsuites[i])])

HasViolation(t) == \E i \in 1..Len(DocumentEntries(t)) : BothForms(DocumentEntries(t)[i].p)

FirstViolationError(t) ==
    LET es == DocumentEntries(t)
        bad == {i \in 1..Len(es) : BothForms(es[i].p)}
    IN  IF bad = {} THEN NilErr
        ELSE es[CHOOSE i \in bad : \A k \in bad : i <= k].e

TheSuite == ts.Testsuites[1]

TheCases == TheSuite.Testcases.v

InvalidReports == {i \in 1..Len(reports) : ~reports[i].IsValid}

FailedCases == {i \in 1..Len(TheCases) : ~TheCases[i].TestcaseFailure.nil}

ChildrenWithTag(el, tag) == SelectSeq(el.body, LAMBDA x : x.tag = tag)

HasAttr(el, a) == \E i \in 1..Len(el.attrs) : el.attrs[i].name = a

----------------------------------------------------------------------------
(* C1 *)

\* C1: whenever any Property of any Suite or any Case of the document has
\* both a value attribute and inline text, checkPropertyValidity returns an
\* error and getReport fails with no bytes, whatever the rest of the
\* document is.
C1_ViolationAlwaysRejected ==
    /\ (Done("checkPropertyValidity") /\ HasViolation(ts)) => ~err.nil
    /\ (Done("getReport") /\ HasViolation(ts)) => (~err.nil /\ data = <<>>)

----------------------------------------------------------------------------
(* C2 *)

\* C2: Print of N reports builds a document with tests = N and exactly one
\* suite of exactly N cases, the i-th case made from the i-th report, and
\* the empty list is not an error.
C2_OneSuiteOfNCasesInOrder ==
    Done("Print") =>
        /\ ts.Tests = Len(reports)
        /\ Len(ts.Testsuites) = 1
        /\ ~TheSuite.Testcases.nil
        /\ Len(TheCases) = Len(reports)
        /\ \A i \in 1..Len(reports) :
              /\ TheCases[i].File = Slashed(reports[i].FilePath)
              /\ TheCases[i].TestcaseFailure.nil = reports[i].IsValid
              /\ ~reports[i].IsValid =>
                    TheCases[i].TestcaseFailure.Message = reports[i].ValidationError.msg
        /\ reports = <<>> => (ret.nil /\ Len(stdout) = 1)

C2_Witness ==
    /\ Done("Print")
    /\ Len(reports) = 2
    /\ reports[1].FilePath # reports[2].FilePath
    /\ reports[1].IsValid # reports[2].IsValid
    /\ Len(TheCases) = 2

----------------------------------------------------------------------------
(* C3 *)

\* C3: a case built by Print carries a Failure record exactly when its
\* report is invalid; the record's message is the error's string and its
\* body text is empty; no case carries an Error or a Skipped record.
C3_FailureIffInvalid ==
    Done("Print") =>
        \A i \in 1..Len(TheCases) :
            /\ ~TheCases[i].TestcaseFailure.nil <=> ~reports[i].IsValid
            /\ ~TheCases[i].TestcaseFailure.nil =>
                  /\ TheCases[i].TestcaseFailure.Message = reports[i].ValidationError.msg
                  /\ TheCases[i].TestcaseFailure.TextValue = <<>>
            /\ TheCases[i].TestcaseError.nil
            /\ TheCases[i].Skipped.nil

C3_Witness ==
    /\ Done("Print")
    /\ \E i, j \in 1..Len(TheCases) :
          /\ reports[i].IsValid
          /\ TheCases[i].TestcaseFailure.nil
          /\ ~reports[j].IsValid
          /\ TheCases[j].TestcaseFailure.Message = reports[j].ValidationError.msg

----------------------------------------------------------------------------
(* C4 *)

\* C4: the errors count of the suite Print builds is the number of invalid
\* reports, which is the number of cases carrying a Failure record, and is
\* at most the document's tests count.
C4_ErrorsCountInvalid ==
    Done("Print") =>
        /\ TheSuite.Errors = Cardinality(InvalidReports)
        /\ TheSuite.Errors = Cardinality(FailedCases)
        /\ TheSuite.Errors <= ts.Tests

C4_Witness ==
    /\ Done("Print")
    /\ TheSuite.Errors = 1
    /\ ts.Tests = 2

----------------------------------------------------------------------------
(* C5 *)

\* C5: Print fails closed.  Either the validity check and the serialization
\* succeed, exactly one write to standard output happens (the header
\* followed by the serialized body) and nil is returned, or an error is
\* returned and nothing was written.  When the validity check fails the
\* marshaller is never entered, getReport returns no bytes, and the
\* validator's error is what the caller gets.
C5_FailClosed ==
    /\ Done("Print") =>
          \/ /\ err.nil
             /\ ret.nil
             /\ marshalCalls = 1
             /\ data # <<>>
             /\ stdout = <<[header |-> Header, body |-> data, newline |-> <<"\n">>]>>
          \/ /\ ~ret.nil
             /\ ret = err
             /\ stdout = <<>>
    /\ (pc = "done" /\ op \in {"Print", "getReport"} /\ ~checkPropertyValidity(ts).nil) =>
          /\ marshalCalls = 0
          /\ data = <<>>
          /\ err = checkPropertyValidity(ts)
          /\ stdout = <<>>

C5_Witness ==
    /\ Done("Print")
    /\ Len(reports) > 0
    /\ ret.nil
    /\ Len(stdout) = 1
    /\ stdout[1].body = data

----------------------------------------------------------------------------
(* C6 *)

\* C6: every backslash of a report's file path is rewritten to a forward
\* slash before use: the case's file is the rewritten path, its name is the
\* rewritten path followed by " validation", no file reference or case name
\* of the built document holds a backslash, and a path without a backslash
\* is used unchanged.
C6_BackslashNormalized ==
    Done("Print") =>
        /\ NoBackslash(TheSuite.File)
        /\ \A i \in 1..Len(reports) :
              /\ TheCases[i].File = Slashed(reports[i].FilePath)
              /\ TheCases[i].Name = Slashed(reports[i].FilePath) \o ValidationSuffix
              /\ NoBackslash(TheCases[i].File)
              /\ NoBackslash(TheCases[i].Name)
              /\ NoBackslash(reports[i].FilePath) => TheCases[i].File = reports[i].FilePath

C6_Witness ==
    /\ Done("Print")
    /\ \E i \in 1..Len(reports) :
          /\ reports[i].FilePath = <<"a","\\","b","\\","c">>
          /\ TheCases[i].File = <<"a","/","b","/","c">>

----------------------------------------------------------------------------
(* C7 *)

\* C7: checkPropertyValidity walks the properties of every suite and of
\* every case in document order, returns nil exactly when no property has
\* both value forms, otherwise returns the error naming the first such
\* property and its owning suite or case, and leaves the tree as it was.
C7_FirstViolationReported ==
    Done("checkPropertyValidity") =>
        /\ err = FirstViolationError(ts)
        /\ err.nil <=> ~HasViolation(ts)
        /\ ts = tree

----------------------------------------------------------------------------
(* C8 *)

\* C8: in the serialized output an invalid case's failure element carries
\* the error string as its message attribute and has no child content.
C8_FailureMessageIsAttribute ==
    (Done("Print") /\ ret.nil) =>
        \A i \in InvalidReports :
            LET caseEl == data[1].body[1].body[i]
                fs == ChildrenWithTag(caseEl, "failure")
            IN  /\ Len(fs) = 1
                /\ fs[1].attrs = <<Attr("message", EscapeText(reports[i].ValidationError.msg))>>
                /\ fs[1].body = <<>>

----------------------------------------------------------------------------
(* C9 *)

DocumentFields(t) ==
    { <<"name", t.Name # <<>>>>, <<"tests", t.Tests # 0>>,
      <<"failures", t.Failures # 0>>, <<"errors", t.Errors # 0>>,
      <<"skipped", t.Skipped # 0>>, <<"assertions", t.Assertions # 0>>,
      <<"time", t.Time # 0>>, <<"timestamp", ~t.Timestamp.nil>> }

SuiteFields(s) == DocumentFields(s) \cup { <<"file", s.File # <<>>>> }

CaseFields(c) ==
    { <<"name", c.Name # <<>>>>, <<"classname", c.ClassName # <<>>>>,
      <<"assertions", c.Assertions # 0>>, <<"time", c.Time # 0>>,
      <<"file", c.File # <<>>>>, <<"line", c.Line # 0>> }

PropertyFields(p) == { <<"name", p.Name # <<>>>>, <<"value", p.Value # <<>>>> }

SkippedFields(k) == { <<"message", k.Message # <<>>>> }

OutcomeFields(o) == { <<"message", o.Message # <<>>>>, <<"type", o.Type # <<>>>> }

\* the attributes el carries are those of fields that are set or always written
Rule(el, kind, fields, always) ==
    /\ \A f \in fields : HasAttr(el, f[1]) <=> (f[2] \/ <<kind, f[1]>> \in always)
    /\ \A i \in 1..Len(el.attrs) : el.attrs[i].name \in {f[1] : f \in fields}

PropertiesRule(el, ps, always) ==
    ~ps.nil =>
        LET w == ChildrenWithTag(el, "properties")[1]
        IN  \A k \in 1..Len(ps.v) :
                Rule(w.body[k], "property", PropertyFields(ps.v[k]), always)

\* outcomes: "attributes" when message and type are held to be attributes
\* of an error or failure element, "none" when the element is held to have
\* no attribute, "unchecked" when nothing is said of it
OutcomeRule(cel, tag, o, always, outcomes) ==
    (~o.nil /\ outcomes # "unchecked") =>
        Rule(ChildrenWithTag(cel, tag)[1], tag,
             IF outcomes = "attributes" THEN OutcomeFields(o) ELSE {}, always)

CaseRule(cel, c, always, outcomes) ==
    /\ Rule(cel, "testcase", CaseFields(c), always)
    /\ PropertiesRule(cel, c.Properties, always)
    /\ ~c.Skipped.nil =>
          Rule(ChildrenWithTag(cel, "skipped")[1], "skipped",
               SkippedFields(c.Skipped), always)
    /\ OutcomeRule(cel, "error", c.TestcaseError, always, outcomes)
    /\ OutcomeRule(cel, "failure", c.TestcaseFailure, always, outcomes)

SuiteRule(sel, s, always, outcomes) ==
    /\ Rule(sel, "testsuite", SuiteFields(s), always)
    /\ PropertiesRule(sel, s.Properties, always)
    /\ \A j \in 1..Len(s.Testcases.v) :
          CaseRule(ChildrenWithTag(sel, "testcase")[j], s.Testcases.v[j],
                   always, outcomes)

AttributeRule(always, outcomes) ==
    (pc = "done" /\ op \in {"Print", "getReport"} /\ err.nil) =>
        /\ Rule(data[1], "testsuites", DocumentFields(ts), always)
        /\ \A i \in 1..Len(ts.Testsuites) :
              SuiteRule(data[1].body[i], ts.Testsuites[i], always, outcomes)

ThreeAlways ==
    { <<"testsuite", "name">>, <<"testcase", "name">>, <<"testcase", "classname">> }

FiveAlways == ThreeAlways \cup { <<"property", "name">>, <<"skipped", "message">> }

----------------------------------------------------------------------------
(* C10 *)

\* C10: the document Print builds has no Properties collection on its suite
\* or on any case, so the validity check succeeds on it and Print never
\* returns a validity error: the only error it can return is the
\* marshaller's.
C10_PrintTreeHasNoProperties ==
    Done("Print") =>
        /\ TheSuite.Properties.nil
        /\ \A i \in 1..Len(TheCases) : TheCases[i].Properties.nil
        /\ ~HasViolation(ts)
        /\ checkPropertyValidity(ts).nil
        /\ ret.nil \/ ret = MarshalIndent(ts).err

C10_Witness ==
    /\ Done("Print")
    /\ Len(TheCases) = 2
    /\ TheSuite.Properties.nil
    /\ TheCases[1].Properties.nil
    /\ TheCases[2].Properties.nil
    /\ ret.nil

====
